---- MODULE Spec2Model ----
(***************************************************************************)
(* A model of the WAMP client of src/src/client.rs: the handshake done by  *)
(* Connection::connect, the receive loop spawned by start_recv_loop, the   *)
(* message dispatch of handle_message and the Client API (subscribe,       *)
(* publish, shutdown).  Two threads act on the shared ConnectionInfo: the  *)
(* caller thread (position cpc) and the dispatch thread (position dpc).    *)
(* Every step that takes a Mutex is an action guarded by that Mutex being  *)
(* free; a MutexGuard's lifetime is the lifetime rustc gives it (a         *)
(* temporary in a match scrutinee lives to the end of the match).          *)
(***************************************************************************)
EXTENDS Integers, Sequences, FiniteSets, Bags, TLC

\* ------------------------------------------------------------ bounds
\* Client API calls made by the caller thread.
MaxCalls == 2
\* Inbound frames read by the receive loop.
MaxFrames == 3
\* Ping / pong frames read by handle_welcome_message before the first
\* application frame.
MaxHandshakeFrames == 1

\* ------------------------------------------------------------ values
\* Router-assigned identifiers and the callbacks an application registers.
SessionIds == {7}
SubIds == {41, 42}
AckReqIds == 1..2

\* List and Dict values carried by events.
EmptyList == << >>
EmptyDict == {}
SomeList == <<1, 2, 3>>
SomeDict == {<<"k", "v">>}

\* ConnectionState
Connected == "Connected"
ShuttingDown == "ShuttingDown"
Disconnected == "Disconnected"
\* Before connect builds the ConnectionInfo there is no lifecycle state.
NoState == "none"

\* messages::Message, as a record with the same fields for every variant.
Msg(t, r, s, a, k) ==
    [type |-> t, request_id |-> r, subscription_id |-> s, args |-> a, kwargs |-> k]

NoMessage == Msg("none", 0, 0, EmptyList, EmptyDict)
\* A payload no deserializer turns into a Message.
Garbage == Msg("garbage", 0, 0, EmptyList, EmptyDict)
Welcome(sid) == Msg("Welcome", sid, 0, EmptyList, EmptyDict)
Abort == Msg("Abort", 0, 0, EmptyList, EmptyDict)
Goodbye == Msg("Goodbye", 0, 0, EmptyList, EmptyDict)
ErrorMsg == Msg("Error", 0, 0, EmptyList, EmptyDict)
Subscribed(r, s) == Msg("Subscribed", r, s, EmptyList, EmptyDict)
Event(s) == Msg("Event", 0, s, EmptyList, EmptyDict)
EventArgs(s, a) == Msg("EventArgs", 0, s, a, EmptyDict)
EventKwArgs(s, a, k) == Msg("EventKwArgs", 0, s, a, k)

EventTypes == {"Event", "EventArgs", "EventKwArgs"}

\* websocket::message::Message: opcode and payload.  The payload is what
\* matters of it: whether it is UTF-8 and which Message, if any, it encodes.
\* "Err" is an Err(e) item of incoming_messages(), "End" the end of the
\* iterator.
Frame(op, u, b) == [opcode |-> op, utf8 |-> u, body |-> b]
NoFrame == Frame("none", TRUE, NoMessage)

ControlFrames ==
    { Frame(op, TRUE, NoMessage) : op \in {"Close", "Ping", "Pong", "Err", "End"} }

UndecodableFrames ==
    { Frame("Text", FALSE, Garbage), Frame("Text", TRUE, Garbage),
      Frame("Binary", FALSE, Garbage) }

TextFrames(msgs) == { Frame("Text", TRUE, m) : m \in msgs }
BinaryFrames(msgs) == { Frame("Binary", FALSE, m) : m \in msgs }

\* What a peer may send while connect waits for the Welcome.
HandshakeMessages == { Welcome(s) : s \in SessionIds } \cup {Abort, Goodbye}
HandshakeFrames ==
    ControlFrames \cup UndecodableFrames
    \cup TextFrames(HandshakeMessages) \cup BinaryFrames(HandshakeMessages)

\* What a peer may send to the receive loop.
\* Every message comes as a text frame, and one of each kind the loop acts
\* on as a binary frame too.
LoopMessages ==
    { Subscribed(r, s) : r \in AckReqIds, s \in SubIds }
    \cup { Event(s) : s \in SubIds }
    \cup { EventArgs(s, SomeList) : s \in SubIds }
    \cup { EventKwArgs(s, SomeList, SomeDict) : s \in SubIds }
    \cup {Goodbye, ErrorMsg}
BinaryLoopMessages == { Subscribed(1, 41), EventKwArgs(41, SomeList, SomeDict), Goodbye }
LoopFrames ==
    ControlFrames \cup UndecodableFrames
    \cup TextFrames(LoopMessages) \cup BinaryFrames(BinaryLoopMessages)

\* ------------------------------------------------------------ decoding
\* from_utf8 + serde_json::from_str for a text frame, the rmp deserializer
\* for a binary frame: the Message, or the error kind.
Decoded(ok, err, m) == [ok |-> ok, err |-> err, message |-> m]

Decode(frame) ==
    IF frame.opcode = "Text"
    THEN IF ~frame.utf8 THEN Decoded(FALSE, "MalformedData", NoMessage)
         ELSE IF frame.body.type = "garbage" THEN Decoded(FALSE, "JSONError", NoMessage)
         ELSE Decoded(TRUE, "", frame.body)
    ELSE IF frame.body.type = "garbage" THEN Decoded(FALSE, "MsgPackError", NoMessage)
         ELSE Decoded(TRUE, "", frame.body)

\* ------------------------------------------------------------ maps
\* HashMap<ID, Subscription>: a function on the set of its keys.
EmptyMap == << >>
MapInsert(m, k, v) == [x \in DOMAIN m \cup {k} |-> IF x = k THEN v ELSE m[x]]
MapRemove_Keep(m, k) == m

MapRemove(m, k) == [x \in DOMAIN m \ {k} |-> m[x]]
\* HashMap::get / the value HashMap::remove returns: an Option, as a
\* sequence of length 0 or 1.
MapGet(m, k) == IF k \in DOMAIN m THEN <<m[k]>> ELSE << >>

Subscription(cb) == [callback |-> cb]

\* The callback an application passes to subscribe: each call boxes a
\* callback of its own, named here after the call that registers it.
CallbackOfCall(n) == 100 + n

\* ------------------------------------------------------------ state
VARIABLES
    cpc,                    \* caller thread: position
    op,                     \* caller thread: the Client call in progress / last made
    result,                 \* what the last call of the caller returned
    ncalls,                 \* Client calls started
    dpc,                    \* dispatch thread: position
    message,                \* dispatch thread: the frame being handled
    subscription,           \* dispatch thread: the Subscription removed by the Subscribed arm
    nframes,                \* frames the receive loop has read
    warned,                 \* dispatch thread: what it logged (warn! / error!) about the last frame read
    welcome_frame,          \* connect: the frame read by handle_welcome_message
    nhandshake,             \* connect: ping / pong frames read before it
    connection_state,       \* ConnectionInfo.connection_state
    state_lock,             \*   its Mutex: "free" or the thread holding it
    state_poisoned,         \*   whether a thread panicked holding it
    sender_lock,            \* ConnectionInfo.sender's Mutex
    sender_shutdown,        \* whether the write half was shut down
    requests_lock,          \* ConnectionInfo.subscription_requests' Mutex
    subscription_requests,  \* ConnectionInfo.subscription_requests
    subscriptions_lock,     \* ConnectionInfo.subscriptions' Mutex
    subscriptions,          \* ConnectionInfo.subscriptions
    max_session_id,         \* Client.max_session_id
    id,                     \* Client.id (0: no Client)
    wire,                   \* frames handed to the transport, as a bag
    calls,                  \* callback invocations, in order
    acked,                  \* Subscribed acknowledgments that found their request, and
                            \*   whether the request's Subscribe frame had gone out
    issued,                 \* request identifiers issued, in order
    decided_by              \* connect: the kind of frame that ended the handshake

vars == <<cpc, op, result, ncalls, dpc, message, subscription, nframes, warned,
          welcome_frame, nhandshake, connection_state, state_lock,
          state_poisoned, sender_lock, sender_shutdown, requests_lock,
          subscription_requests, subscriptions_lock, subscriptions,
          max_session_id, id, wire, calls, acked, issued, decided_by>>

callerVars == <<cpc, op, result, ncalls, max_session_id, id, issued>>
connectVars == <<welcome_frame, nhandshake, decided_by>>
dispatchVars == <<dpc, message, subscription, nframes, warned>>
stateVars == <<connection_state, state_lock, state_poisoned>>
senderVars == <<sender_lock, sender_shutdown, wire>>
requestVars == <<requests_lock, subscription_requests>>
subscriptionVars == <<subscriptions_lock, subscriptions>>
eventVars == <<calls, acked>>

Init ==
    /\ cpc = "new"
    /\ op = "connect"
    /\ result = "none"
    /\ ncalls = 0
    /\ dpc = "none"
    /\ message = NoFrame
    /\ subscription = << >>
    /\ nframes = 0
    /\ warned = "none"
    /\ welcome_frame = NoFrame
    /\ nhandshake = 0
    /\ connection_state = NoState
    /\ state_lock = "free"
    /\ state_poisoned = FALSE
    /\ sender_lock = "free"
    /\ sender_shutdown = FALSE
    /\ requests_lock = "free"
    /\ subscription_requests = EmptyMap
    /\ subscriptions_lock = "free"
    /\ subscriptions = EmptyMap
    /\ max_session_id = 0
    /\ id = 0
    /\ wire = EmptyBag
    /\ calls = << >>
    /\ acked = {}
    /\ issued = << >>
    /\ decided_by = "none"

\* ------------------------------------------------------------ writes
\* A frame handed to the transport: what it is and what became of the
\* write: "ok", "failed", or "ignored" where the code drops the outcome
\* (let _ = ...) without looking at it.
OutFrame(kind, reason, rid, outcome) ==
    [kind |-> kind, reason |-> reason, request_id |-> rid, outcome |-> outcome]

CloseFrame == OutFrame("close", "", 0, "ignored")
PongFrame_Close == OutFrame("close", "", 0, "ignored")

PongFrame == OutFrame("pong", "", 0, "ignored")

Written(w, f) == w (+) SetToBag({f})

\* The outcomes of one write: a write to a write half that was shut down
\* fails, any other write succeeds or fails.
WriteOutcomes == IF sender_shutdown THEN {FALSE} ELSE BOOLEAN

\* send_message_json / send_message_msgpack, with the sender locked (the
\* two differ in the encoding alone): the frame is written; when that fails
\* a close frame is written too and its outcome ignored.
Sent(w, kind, reason, rid, ok) ==
    IF ok
    THEN Written(w, OutFrame(kind, reason, rid, "ok"))
    ELSE Written(Written(w, OutFrame(kind, reason, rid, "failed")), CloseFrame)

SendResult(ok) == IF ok THEN "Ok" ELSE "WebSocketError"

\* Whether the Subscribe frame of this request went out to the router.
SubscribeSent(w, rid) == BagIn(OutFrame("Subscribe", "", rid, "ok"), w)

\* ------------------------------------------------------------ connect
\* Connection::connect up to the construction of the ConnectionInfo: the
\* URL is parsed, the transport opened and the response validated (each may
\* fail); the lifecycle state starts as Connected.

ConnectOpen ==
    /\ cpc = "new"
    /\ \E outcome \in {"Ok", "URLError", "WebSocketError"} :
          IF outcome = "Ok"
          THEN /\ connection_state' = Connected
               /\ cpc' = "hello"
               /\ UNCHANGED result
          ELSE /\ cpc' = "failed"
               /\ result' = outcome
               /\ UNCHANGED connection_state
    /\ UNCHANGED <<op, ncalls, max_session_id, id, issued, welcome_frame, nhandshake,
                   decided_by, state_lock, state_poisoned>>
    /\ UNCHANGED <<dispatchVars, senderVars, requestVars, subscriptionVars, eventVars>>

\* connect sends the Hello; handle_welcome_message then locks the sender
\* for the whole of the handshake.
SendHello ==
    /\ cpc = "hello"
    /\ sender_lock = "free"
    /\ \E ok \in WriteOutcomes :
          /\ wire' = Sent(wire, "Hello", "", 0, ok)
          /\ IF ok
             THEN /\ cpc' = "welcome"
                  /\ sender_lock' = "caller"
                  /\ UNCHANGED result
             ELSE /\ cpc' = "failed"
                  /\ result' = SendResult(ok)
                  /\ UNCHANGED sender_lock
    /\ UNCHANGED <<op, ncalls, max_session_id, id, issued, connectVars,
                   sender_shutdown>>
    /\ UNCHANGED <<dispatchVars, stateVars, requestVars, subscriptionVars, eventVars>>

\* What decides the handshake: the first item of incoming_messages() that
\* is neither a ping nor a pong.
FrameClass(f) ==
    CASE f.opcode = "Err" -> "read error"
      [] f.opcode = "End" -> "end of stream"
      [] f.opcode = "Close" -> "close"
      [] f.opcode = "Text" /\ ~f.utf8 -> "undecodable"
      [] f.opcode \in {"Text", "Binary"} /\ f.body.type = "garbage" -> "undecodable"
      [] OTHER -> f.body.type

\* One iteration of the loop of handle_welcome_message: a ping is answered
\* with a pong (its outcome ignored), a pong is skipped, anything else ends
\* the loop.
WelcomeRecv ==
    /\ cpc = "welcome"
    /\ \E f \in HandshakeFrames :
          /\ welcome_frame' = f
          /\ IF f.opcode \in {"Ping", "Pong"}
             THEN /\ nhandshake < MaxHandshakeFrames
                  /\ nhandshake' = nhandshake + 1
                  /\ cpc' = "welcome"
                  /\ UNCHANGED decided_by
                  /\ IF f.opcode = "Ping"
                     THEN wire' = Written(wire, PongFrame)
                     ELSE UNCHANGED wire
             ELSE /\ cpc' = "welcomed"
                  /\ decided_by' = FrameClass(f)
                  /\ UNCHANGED <<nhandshake, wire>>
    /\ UNCHANGED <<op, result, ncalls, max_session_id, id, issued,
                   sender_lock, sender_shutdown>>
    /\ UNCHANGED <<dispatchVars, stateVars, requestVars, subscriptionVars, eventVars>>

\* What handle_welcome_message returns for the frame that ended its loop.
HandleWelcomeResult(f) ==
    CASE f.opcode = "Err" -> Decoded(FALSE, "WebSocketError", NoMessage)
      [] f.opcode \in {"Close", "End"} -> Decoded(FALSE, "ConnectionLost", NoMessage)
      [] OTHER -> Decode(f)

\* connect's match on the welcome message.
ConnectResult_AbortUnexpected(r) ==
    IF ~r.ok THEN r.err
    ELSE IF r.message.type = "Welcome" THEN "Ok" ELSE "UnexpectedMessage"

ConnectResult(r) ==
    IF ~r.ok THEN r.err
    ELSE CASE r.message.type = "Welcome" -> "Ok"
           [] r.message.type = "Abort" -> "ConnectionLost"
           [] OTHER -> "UnexpectedMessage"

\* handle_welcome_message returns (the sender is unlocked); on a Welcome
\* the receive loop is spawned and the Client built, otherwise connect
\* returns the error.
ConnectFinish ==
    /\ cpc = "welcomed"
    /\ LET r == HandleWelcomeResult(welcome_frame)
           res == ConnectResult(r)
       IN /\ result' = res
          /\ IF res = "Ok"
             THEN /\ cpc' = "idle"
                  /\ dpc' = "recv"
                  /\ id' = r.message.request_id
                  /\ max_session_id' = 0
             ELSE /\ cpc' = "failed"
                  /\ UNCHANGED <<dpc, id, max_session_id>>
    /\ sender_lock' = "free"
    /\ welcome_frame' = NoFrame
    /\ nhandshake' = 0
    /\ UNCHANGED <<op, ncalls, issued, decided_by,
                   message, subscription, nframes, warned, sender_shutdown, wire>>
    /\ UNCHANGED <<stateVars, requestVars, subscriptionVars, eventVars>>

\* ------------------------------------------------------------ Client
\* Client::get_next_session_id: the identifier it returns for the counter
\* it found.
get_next_session_id_NoIncrement(max) == max

get_next_session_id(max) == max + 1

\* Client::subscribe up to the end of its insert statement: the request
\* identifier is taken and the Subscription put into subscription_requests
\* under the table's lock, which the statement releases.
SubscribeInsert_AfterSend ==
    /\ cpc = "idle"
    /\ ncalls < MaxCalls
    /\ LET request_id == get_next_session_id(max_session_id)
       IN /\ max_session_id' = request_id
          /\ issued' = Append(issued, request_id)
    /\ op' = "subscribe"
    /\ ncalls' = ncalls + 1
    /\ cpc' = "send"
    /\ UNCHANGED <<result, id, requestVars>>
    /\ UNCHANGED <<connectVars, dispatchVars, stateVars, senderVars, subscriptionVars,
                   eventVars>>

SubscribeInsert ==
    /\ cpc = "idle"
    /\ ncalls < MaxCalls
    /\ requests_lock = "free"
    /\ LET request_id == get_next_session_id(max_session_id)
           callback == CallbackOfCall(ncalls + 1)
       IN /\ max_session_id' = request_id
          /\ issued' = Append(issued, request_id)
          /\ subscription_requests' =
                 MapInsert(subscription_requests, request_id, Subscription(callback))
    /\ op' = "subscribe"
    /\ ncalls' = ncalls + 1
    /\ cpc' = "send"
    /\ UNCHANGED <<result, id, requests_lock>>
    /\ UNCHANGED <<connectVars, dispatchVars, stateVars, senderVars, subscriptionVars,
                   eventVars>>

\* Client::publish up to its send: the request identifier is taken.
PublishBegin ==
    /\ cpc = "idle"
    /\ ncalls < MaxCalls
    /\ LET request_id == get_next_session_id(max_session_id)
       IN /\ max_session_id' = request_id
          /\ issued' = Append(issued, request_id)
    /\ op' = "publish"
    /\ ncalls' = ncalls + 1
    /\ cpc' = "send"
    /\ UNCHANGED <<result, id>>
    /\ UNCHANGED <<connectVars, dispatchVars, stateVars, senderVars, requestVars,
                   subscriptionVars, eventVars>>

\* Whether shutdown sends its Goodbye, for the lifecycle state it found.
ShutdownSends_NotShuttingDown(state) == state # ShuttingDown

ShutdownSends(state) == state = Connected

\* Client::shutdown locks the lifecycle state (lock().unwrap() panics on a
\* poisoned Mutex) and keeps the guard to the end of the function.
ShutdownLock ==
    /\ cpc = "idle"
    /\ ncalls < MaxCalls
    /\ state_lock = "free"
    /\ op' = "shutdown"
    /\ ncalls' = ncalls + 1
    /\ IF state_poisoned
       THEN /\ cpc' = "panicked"
            /\ result' = "panic"
            /\ UNCHANGED state_lock
       ELSE IF ShutdownSends(connection_state)
       THEN /\ cpc' = "send"
            /\ state_lock' = "caller"
            /\ UNCHANGED result
       ELSE /\ cpc' = "idle"
            /\ result' = "Unit"
            /\ UNCHANGED state_lock
    /\ UNCHANGED <<max_session_id, id, issued, connection_state, state_poisoned>>
    /\ UNCHANGED <<connectVars, dispatchVars, senderVars, requestVars, subscriptionVars,
                   eventVars>>

\* Client::send_message -> send_message_json / send_message_msgpack: the
\* sender is locked.
ClientSendLock_NoLock ==
    /\ cpc = "send"
    /\ cpc' = "write"
    /\ UNCHANGED <<op, result, ncalls, max_session_id, id, issued, senderVars>>
    /\ UNCHANGED <<connectVars, dispatchVars, stateVars, requestVars, subscriptionVars,
                   eventVars>>

ClientSendLock ==
    /\ cpc = "send"
    /\ sender_lock = "free"
    /\ sender_lock' = "caller"
    /\ cpc' = "write"
    /\ UNCHANGED <<op, result, ncalls, max_session_id, id, issued, sender_shutdown, wire>>
    /\ UNCHANGED <<connectVars, dispatchVars, stateVars, requestVars, subscriptionVars,
                   eventVars>>

\* The Subscribe frame is written, the sender unlocked, and subscribe
\* returns what the send returned.
SubscribeWrite ==
    /\ cpc = "write"
    /\ op = "subscribe"
    /\ \E ok \in WriteOutcomes :
          /\ wire' = Sent(wire, "Subscribe", "", max_session_id, ok)
          /\ result' = SendResult(ok)
    /\ sender_lock' = "free"
    /\ cpc' = "idle"
    /\ UNCHANGED <<op, ncalls, max_session_id, id, issued, sender_shutdown>>
    /\ UNCHANGED <<connectVars, dispatchVars, stateVars, requestVars, subscriptionVars,
                   eventVars>>

\* The PublishKwArgs frame is written, the sender unlocked, and publish
\* returns what the send returned.
PublishWrite ==
    /\ cpc = "write"
    /\ op = "publish"
    /\ \E ok \in WriteOutcomes :
          /\ wire' = Sent(wire, "PublishKwArgs", "", max_session_id, ok)
          /\ result' = SendResult(ok)
    /\ sender_lock' = "free"
    /\ cpc' = "idle"
    /\ UNCHANGED <<op, ncalls, max_session_id, id, issued, sender_shutdown>>
    /\ UNCHANGED <<connectVars, dispatchVars, stateVars, requestVars, subscriptionVars,
                   eventVars>>

\* shutdown's Goodbye is written (its outcome dropped by .ok()), the
\* lifecycle state set to ShuttingDown and its guard dropped.
ShutdownWrite ==
    /\ cpc = "write"
    /\ op = "shutdown"
    /\ \E ok \in WriteOutcomes :
          wire' = Sent(wire, "Goodbye", "SystemShutdown", 0, ok)
    /\ sender_lock' = "free"
    /\ connection_state' = ShuttingDown
    /\ state_lock' = "free"
    /\ result' = "Unit"
    /\ cpc' = "idle"
    /\ UNCHANGED <<op, ncalls, max_session_id, id, issued, sender_shutdown, state_poisoned>>
    /\ UNCHANGED <<connectVars, dispatchVars, requestVars, subscriptionVars, eventVars>>

\* ------------------------------------------------------------ receive loop
\* The next item of receiver.incoming_messages().
DispatchRecv ==
    /\ dpc = "recv"
    /\ nframes < MaxFrames
    /\ \E f \in LoopFrames : message' = f
    /\ nframes' = nframes + 1
    /\ dpc' = "got"
    /\ UNCHANGED subscription
    /\ UNCHANGED <<callerVars, connectVars, stateVars, senderVars, requestVars,
                   subscriptionVars, eventVars>>
    /\ warned' = "none"

\* Where the loop goes after a text or binary frame that does not decode.
DropNext_Break == "exit"

DropNext == "recv"

\* A text or binary frame that does not decode is logged and dropped.
DispatchDrop ==
    /\ dpc = "got"
    /\ message.opcode \in {"Text", "Binary"}
    /\ ~Decode(message).ok
    /\ dpc' = DropNext
    /\ warned' = "undecodable frame"
    /\ message' = NoFrame
    /\ UNCHANGED <<subscription, nframes>>
    /\ UNCHANGED <<callerVars, connectVars, stateVars, senderVars, requestVars,
                   subscriptionVars, eventVars>>

\* A pong is logged.
DispatchPong ==
    /\ dpc = "got"
    /\ message.opcode = "Pong"
    /\ dpc' = "recv"
    /\ message' = NoFrame
    /\ UNCHANGED <<subscription, nframes>>
    /\ UNCHANGED <<callerVars, connectVars, stateVars, senderVars, requestVars,
                   subscriptionVars, eventVars>>
    /\ UNCHANGED warned

\* The iterator ends: the for loop is left.
DispatchEnd ==
    /\ dpc = "got"
    /\ message.opcode = "End"
    /\ dpc' = "exit"
    /\ message' = NoFrame
    /\ UNCHANGED <<subscription, nframes>>
    /\ UNCHANGED <<callerVars, connectVars, stateVars, senderVars, requestVars,
                   subscriptionVars, eventVars>>
    /\ UNCHANGED warned

\* A read error or a close frame: the sender is locked for the close frame.
DispatchCloseLock ==
    /\ dpc = "got"
    /\ message.opcode \in {"Err", "Close"}
    /\ sender_lock = "free"
    /\ sender_lock' = "dispatch"
    /\ dpc' = "close_write"
    /\ UNCHANGED <<message, subscription, nframes, sender_shutdown, wire>>
    /\ UNCHANGED <<callerVars, connectVars, stateVars, requestVars, subscriptionVars,
                   eventVars>>
    /\ UNCHANGED warned

\* The close frame is written, its outcome ignored, and the loop left.
DispatchCloseWrite_NoBreak ==
    /\ dpc = "close_write"
    /\ wire' = Written(wire, CloseFrame)
    /\ sender_lock' = "free"
    /\ dpc' = "recv"
    /\ message' = NoFrame
    /\ UNCHANGED <<subscription, nframes, sender_shutdown>>
    /\ UNCHANGED <<callerVars, connectVars, stateVars, requestVars, subscriptionVars,
                   eventVars>>
    /\ UNCHANGED warned

DispatchCloseWrite ==
    /\ dpc = "close_write"
    /\ wire' = Written(wire, CloseFrame)
    /\ sender_lock' = "free"
    /\ dpc' = "exit"
    /\ message' = NoFrame
    /\ UNCHANGED <<subscription, nframes, sender_shutdown>>
    /\ UNCHANGED <<callerVars, connectVars, stateVars, requestVars, subscriptionVars,
                   eventVars>>
    /\ UNCHANGED warned

\* A ping: the sender is locked for the pong.
DispatchPingLock ==
    /\ dpc = "got"
    /\ message.opcode = "Ping"
    /\ sender_lock = "free"
    /\ sender_lock' = "dispatch"
    /\ dpc' = "pong_write"
    /\ UNCHANGED <<message, subscription, nframes, sender_shutdown, wire>>
    /\ UNCHANGED <<callerVars, connectVars, stateVars, requestVars, subscriptionVars,
                   eventVars>>
    /\ UNCHANGED warned

\* The pong is written, its outcome ignored, and the loop goes on.
DispatchPongWrite ==
    /\ dpc = "pong_write"
    /\ wire' = Written(wire, PongFrame)
    /\ sender_lock' = "free"
    /\ dpc' = "recv"
    /\ message' = NoFrame
    /\ UNCHANGED <<subscription, nframes, sender_shutdown>>
    /\ UNCHANGED <<callerVars, connectVars, stateVars, requestVars, subscriptionVars,
                   eventVars>>
    /\ UNCHANGED warned

\* ------------------------------------------------------------ handle_message
\* The Message handle_message is called with.
Handled == Decode(message).message

IsHandled(types) ==
    /\ dpc = "got"
    /\ message.opcode \in {"Text", "Binary"}
    /\ Decode(message).ok
    /\ Handled.type \in types

\* Subscribed arm, the match scrutinee: subscription_requests is locked and
\* the request removed.  The guard is a temporary of the scrutinee, so it
\* is held until the match ends: at once when there was no such request,
\* after the insert into subscriptions otherwise.
HandleSubscribedRemove ==
    /\ IsHandled({"Subscribed"})
    /\ requests_lock = "free"
    /\ LET found == MapGet(subscription_requests, Handled.request_id)
       IN /\ subscription_requests' = MapRemove(subscription_requests, Handled.request_id)
          /\ IF found # << >>
             THEN /\ subscription' = found
                  /\ requests_lock' = "dispatch"
                  /\ dpc' = "subscribed_some"
                  /\ UNCHANGED <<message, warned>>
             ELSE /\ dpc' = "recv"
                  /\ warned' = "unknown request"
                  /\ message' = NoFrame
                  /\ UNCHANGED <<subscription, requests_lock>>
    /\ UNCHANGED nframes
    /\ UNCHANGED <<callerVars, connectVars, stateVars, senderVars, subscriptionVars,
                   eventVars>>

\* Subscribed arm, Some(subscription): subscriptions is locked.
HandleSubscribedLock ==
    /\ dpc = "subscribed_some"
    /\ subscriptions_lock = "free"
    /\ subscriptions_lock' = "dispatch"
    /\ dpc' = "subscribed_insert"
    /\ UNCHANGED <<message, subscription, nframes, subscriptions>>
    /\ UNCHANGED <<callerVars, connectVars, stateVars, senderVars, requestVars, eventVars>>
    /\ UNCHANGED warned

\* Subscribed arm, Some(subscription): the Subscription is inserted under
\* the subscription identifier and both guards are dropped.
HandleSubscribedInsert ==
    /\ dpc = "subscribed_insert"
    /\ subscriptions' = MapInsert(subscriptions, Handled.subscription_id, subscription[1])
    /\ acked' = acked \cup { [request_id |-> Handled.request_id,
                              subscription_id |-> Handled.subscription_id,
                              callback |-> subscription[1].callback,
                              sent |-> SubscribeSent(wire, Handled.request_id)] }
    /\ subscriptions_lock' = "free"
    /\ requests_lock' = "free"
    /\ subscription' = << >>
    /\ dpc' = "recv"
    /\ message' = NoFrame
    /\ UNCHANGED <<nframes, subscription_requests, calls>>
    /\ UNCHANGED <<callerVars, connectVars, stateVars, senderVars>>
    /\ UNCHANGED warned

\* The arguments the three event arms call the callback with.
CallArgs(m) == IF m.type = "Event" THEN EmptyList ELSE m.args
CallKwArgs(m) == IF m.type = "EventKwArgs" THEN m.kwargs ELSE EmptyDict

\* subscriptions.get(&subscription_id) of the event arms.
Lookup_AnySubscription(table, subscription_id) ==
    IF subscription_id \in DOMAIN table THEN <<table[subscription_id]>>
    ELSE IF DOMAIN table = {} THEN << >>
    ELSE <<table[CHOOSE k \in DOMAIN table : TRUE]>>

Lookup(table, subscription_id) == MapGet(table, subscription_id)

\* Event, EventArgs and EventKwArgs arms: with subscriptions locked, the
\* callback of the subscription, if there is one, is called.
HandleEvent ==
    /\ IsHandled(EventTypes)
    /\ subscriptions_lock = "free"
    /\ LET found == Lookup(subscriptions, Handled.subscription_id)
       IN IF found # << >>
          THEN /\ calls' = Append(calls, [callback |-> found[1].callback,
                                           args |-> CallArgs(Handled),
                                           kwargs |-> CallKwArgs(Handled)])
               /\ UNCHANGED warned
          ELSE /\ warned' = "unknown subscription"
               /\ UNCHANGED calls
    /\ dpc' = "recv"
    /\ message' = NoFrame
    /\ UNCHANGED <<subscription, nframes, acked>>
    /\ UNCHANGED <<callerVars, connectVars, stateVars, senderVars, requestVars,
                   subscriptionVars>>

\* Whether the Goodbye arm answers with a Goodbye, for the lifecycle state
\* it found.
GoodbyeReplies_Always(state) == TRUE

GoodbyeReplies(state) == state = Connected

\* Goodbye arm, the match scrutinee: the lifecycle state is locked and
\* read.  The guard is held until the match ends: through the send when
\* Connected, until the return otherwise.
HandleGoodbyeLock ==
    /\ IsHandled({"Goodbye"})
    /\ state_lock = "free"
    /\ IF GoodbyeReplies(connection_state)
       THEN /\ state_lock' = "dispatch"
            /\ dpc' = "goodbye_send"
            /\ UNCHANGED message
       ELSE /\ dpc' = "exit"
            /\ message' = NoFrame
            /\ UNCHANGED state_lock
    /\ UNCHANGED <<subscription, nframes, connection_state, state_poisoned>>
    /\ UNCHANGED <<callerVars, connectVars, senderVars, requestVars, subscriptionVars,
                   eventVars>>
    /\ UNCHANGED warned

\* Goodbye arm, Connected: send_message locks the sender.
GoodbyeSendLock ==
    /\ dpc = "goodbye_send"
    /\ sender_lock = "free"
    /\ sender_lock' = "dispatch"
    /\ dpc' = "goodbye_write"
    /\ UNCHANGED <<message, subscription, nframes, sender_shutdown, wire>>
    /\ UNCHANGED <<callerVars, connectVars, stateVars, requestVars, subscriptionVars,
                   eventVars>>
    /\ UNCHANGED warned

\* Goodbye arm, Connected: the reply is written and the sender unlocked.
\* The result is unwrapped: when the write failed the thread panics with
\* the lifecycle guard held, which poisons that Mutex; otherwise
\* handle_message returns false and the loop is left.
GoodbyeWrite ==
    /\ dpc = "goodbye_write"
    /\ \E ok \in WriteOutcomes :
          /\ wire' = Sent(wire, "Goodbye", "GoodbyeAndOut", 0, ok)
          /\ IF ok
             THEN /\ dpc' = "exit"
                  /\ UNCHANGED state_poisoned
             ELSE /\ dpc' = "panicked"
                  /\ state_poisoned' = TRUE
    /\ sender_lock' = "free"
    /\ state_lock' = "free"
    /\ message' = NoFrame
    /\ UNCHANGED <<subscription, nframes, sender_shutdown, connection_state>>
    /\ UNCHANGED <<callerVars, connectVars, requestVars, subscriptionVars, eventVars>>
    /\ UNCHANGED warned

\* Every other Message: handle_message returns true.
HandleOther ==
    /\ dpc = "got"
    /\ message.opcode \in {"Text", "Binary"}
    /\ Decode(message).ok
    /\ Handled.type \notin EventTypes \cup {"Subscribed", "Goodbye"}
    /\ dpc' = "recv"
    /\ message' = NoFrame
    /\ UNCHANGED <<subscription, nframes>>
    /\ UNCHANGED <<callerVars, connectVars, stateVars, senderVars, requestVars,
                   subscriptionVars, eventVars>>
    /\ UNCHANGED warned

\* ------------------------------------------------------------ loop exit
\* After the loop: the write half is shut down under the sender's lock and
\* the read half shut down.
ExitShutdown_KeepsGuard ==
    /\ dpc = "exit"
    /\ sender_lock = "free"
    /\ sender_lock' = "dispatch"
    /\ sender_shutdown' = TRUE
    /\ dpc' = "exit_state"
    /\ UNCHANGED <<message, subscription, nframes, wire>>
    /\ UNCHANGED <<callerVars, connectVars, stateVars, requestVars, subscriptionVars,
                   eventVars>>
    /\ UNCHANGED warned

ExitShutdown ==
    /\ dpc = "exit"
    /\ sender_lock = "free"
    /\ sender_shutdown' = TRUE
    /\ dpc' = "exit_state"
    /\ UNCHANGED <<message, subscription, nframes, sender_lock, wire>>
    /\ UNCHANGED <<callerVars, connectVars, stateVars, requestVars, subscriptionVars,
                   eventVars>>
    /\ UNCHANGED warned

\* After the loop: the lifecycle state is set to Disconnected under its
\* lock, and the thread ends.
ExitDisconnected ==
    /\ dpc = "exit_state"
    /\ state_lock = "free"
    /\ connection_state' = Disconnected
    /\ dpc' = "done"
    /\ UNCHANGED <<message, subscription, nframes, state_lock, state_poisoned>>
    /\ UNCHANGED <<callerVars, connectVars, senderVars, requestVars, subscriptionVars,
                   eventVars>>
    /\ UNCHANGED warned

\* ------------------------------------------------------------ specification
Next ==
    \/ ConnectOpen
    \/ SendHello
    \/ WelcomeRecv
    \/ ConnectFinish
    \/ SubscribeInsert
    \/ PublishBegin
    \/ ShutdownLock
    \/ ClientSendLock
    \/ SubscribeWrite
    \/ PublishWrite
    \/ ShutdownWrite
    \/ DispatchRecv
    \/ DispatchDrop
    \/ DispatchPong
    \/ DispatchEnd
    \/ DispatchCloseLock
    \/ DispatchCloseWrite
    \/ DispatchPingLock
    \/ DispatchPongWrite
    \/ HandleSubscribedRemove
    \/ HandleSubscribedLock
    \/ HandleSubscribedInsert
    \/ HandleEvent
    \/ HandleGoodbyeLock
    \/ GoodbyeSendLock
    \/ GoodbyeWrite
    \/ HandleOther
    \/ ExitShutdown
    \/ ExitDisconnected

Spec == Init /\ [][Next]_vars

\* ------------------------------------------------------------ scheduling
\* The steps a thread takes by itself once it is scheduled: the dispatch
\* thread's handling of the frame it has read and its way out of the loop
\* (not the read itself, which waits for the peer), and the caller's way
\* through a call it has started (not the start of a call, which is the
\* application's choice).
DispatchRun ==
    \/ DispatchDrop
    \/ DispatchPong
    \/ DispatchEnd
    \/ DispatchCloseLock
    \/ DispatchCloseWrite
    \/ DispatchPingLock
    \/ DispatchPongWrite
    \/ HandleSubscribedRemove
    \/ HandleSubscribedLock
    \/ HandleSubscribedInsert
    \/ HandleEvent
    \/ HandleGoodbyeLock
    \/ GoodbyeSendLock
    \/ GoodbyeWrite
    \/ HandleOther
    \/ ExitShutdown
    \/ ExitDisconnected

CallerRun ==
    \/ ClientSendLock
    \/ SubscribeWrite
    \/ PublishWrite
    \/ ShutdownWrite

\* Both threads are scheduled fairly.
FairSpec == Spec /\ WF_vars(DispatchRun) /\ WF_vars(CallerRun)

\* ------------------------------------------------------------ properties
\* Steps of the two threads.
CallerStep == cpc' # cpc \/ ncalls' # ncalls
DispatchStep == dpc' # dpc

\* The dispatch thread is past its for loop: on its way out, ended, or
\* unwound by a panic.
LoopLeft == {"exit", "exit_state", "done", "panicked"}

\* Goodbye frames with this reason handed to the transport, whatever the
\* outcome of the write.
GoodbyesWritten(w, reason) ==
    CopiesIn(OutFrame("Goodbye", reason, 0, "ok"), w)
    + CopiesIn(OutFrame("Goodbye", reason, 0, "failed"), w)

\* The invocation an event message asks for, by its variant.
Invocation(cb, m) ==
    [callback |-> cb,
     args |-> IF m.type \in {"EventArgs", "EventKwArgs"} THEN m.args ELSE << >>,
     kwargs |-> IF m.type = "EventKwArgs" THEN m.kwargs ELSE {}]

\* The dispatch thread finishes handling an event message.
EventHandled ==
    /\ dpc = "got"
    /\ message.opcode \in {"Text", "Binary"}
    /\ message.body.type \in EventTypes
    /\ DispatchStep

\* C1: with a router that acknowledges only the Subscribe frames it was
\* sent: whenever an event is processed, every callback whose subscribe
\* call was acknowledged under the event's subscription id is invoked
\* exactly once, with the event's args (empty list when the variant has
\* none) and kwargs (empty map when the variant has none); and no callback
\* is invoked that was not acknowledged before.
C1_EventInvokesSubscriber ==
    [][ (EventHandled /\ \A a \in acked : a.sent) =>
          /\ \A a \in acked :
                a.subscription_id = message.body.subscription_id
                    => calls' = Append(calls, Invocation(a.callback, message.body))
          /\ \A i \in 1..Len(calls') :
                \E a \in acked : a.callback = calls'[i].callback ]_vars

\* C2: a shutdown() call that finds the lifecycle Connected goes on to send
\* its Goodbye, writes exactly one Goodbye(SystemShutdown) and moves
\* Connected -> ShuttingDown; a call that finds another state sends nothing
\* and leaves the state as it is.
ShutdownCalled == cpc = "idle" /\ ncalls' # ncalls /\ op' = "shutdown"

C2_ShutdownOnce ==
    [][ /\ ShutdownCalled =>
             IF connection_state = Connected
             THEN cpc' = "send" /\ wire' = wire
             ELSE cpc' = "idle" /\ wire' = wire /\ connection_state' = connection_state
        /\ (cpc = "write" /\ op = "shutdown" /\ CallerStep) =>
             /\ connection_state = Connected
             /\ connection_state' = ShuttingDown
             /\ GoodbyesWritten(wire', "SystemShutdown")
                    = GoodbyesWritten(wire, "SystemShutdown") + 1
             /\ GoodbyesWritten(wire', "SystemShutdown") = 1 ]_vars

\* C3: handling a Goodbye, the dispatch thread writes exactly one
\* Goodbye(GoodbyeAndOut) when the lifecycle is Connected and no frame when
\* it is ShuttingDown, and leaves the loop; once the loop is left no
\* further frame is read.
GoodbyeInHand ==
    /\ dpc = "got"
    /\ message.opcode \in {"Text", "Binary"}
    /\ message.body.type = "Goodbye"

C3_GoodbyeEndsLoop ==
    [][ /\ (GoodbyeInHand /\ DispatchStep) =>
             /\ wire' = wire
             /\ IF connection_state = Connected
                THEN dpc' = "goodbye_send"
                ELSE connection_state = ShuttingDown /\ dpc' = "exit"
        /\ (dpc = "goodbye_send" /\ DispatchStep) =>
             dpc' = "goodbye_write" /\ wire' = wire
        /\ (dpc = "goodbye_write" /\ DispatchStep) =>
             /\ GoodbyesWritten(wire', "GoodbyeAndOut")
                    = GoodbyesWritten(wire, "GoodbyeAndOut") + 1
             /\ GoodbyesWritten(wire', "SystemShutdown")
                    = GoodbyesWritten(wire, "SystemShutdown")
             /\ dpc' \in LoopLeft
        /\ dpc \in LoopLeft =>
             /\ dpc' \in LoopLeft
             /\ nframes' = nframes
             /\ UNCHANGED <<subscriptions, calls, acked>> ]_vars

\* C3 witness: a Goodbye found the lifecycle Connected, the reply was
\* written and the loop was left.
C3_Witness ==
    /\ dpc \in LoopLeft
    /\ message = NoFrame
    /\ GoodbyesWritten(wire, "GoodbyeAndOut") = 1
    /\ nframes < MaxFrames

\* C4: connect's outcome follows the frame that ended the handshake:
\* Welcome gives a Client with the session id and a spawned loop, Abort
\* ConnectionLost, another message UnexpectedMessage, a close frame or the
\* end of the stream ConnectionLost, an undecodable frame a decode error;
\* a failed connect leaves no Client and no dispatch thread.
ConnectReturned == cpc \notin {"new", "hello", "welcome", "welcomed"}
ConnectFailed(kinds) == cpc = "failed" /\ result \in kinds

C4_ConnectOutcome ==
    ConnectReturned =>
        /\ decided_by = "Welcome" =>
              cpc # "failed" /\ id \in SessionIds /\ dpc # "none"
        /\ decided_by = "Abort" => ConnectFailed({"ConnectionLost"})
        /\ decided_by \in {"close", "end of stream"} => ConnectFailed({"ConnectionLost"})
        /\ decided_by = "undecodable" =>
              ConnectFailed({"MalformedData", "JSONError", "MsgPackError"})
        /\ decided_by \in {"Goodbye", "Subscribed", "Error"} \cup EventTypes =>
              ConnectFailed({"UnexpectedMessage"})
        /\ cpc = "failed" => id = 0 /\ dpc = "none"

\* C4 witness: a peer answered the Hello with an Abort and connect returned
\* ConnectionLost.
C4_Witness ==
    /\ cpc = "failed"
    /\ decided_by = "Abort"
    /\ result = "ConnectionLost"
    /\ id = 0
    /\ dpc = "none"

\* C5: the request identifiers issued by subscribe and publish are
\* strictly increasing, and all are above zero.
C5_RequestIdsIncrease ==
    \A i \in 1..Len(issued) :
        /\ issued[i] > 0
        /\ \A j \in 1..Len(issued) : i < j => issued[i] < issued[j]

\* C5 witness: a subscribe and a publish have both been given identifiers.
C5_Witness ==
    /\ Len(issued) >= 2
    /\ \E o \in {"ok", "failed"} : BagIn(OutFrame("Subscribe", "", issued[1], o), wire)
    /\ \E o \in {"ok", "failed"} : BagIn(OutFrame("PublishKwArgs", "", issued[2], o), wire)

\* C6: after a subscribe or publish whose write failed, the tables hold
\* what they held before the call: no entry of pending requests is under
\* the request identifier the call took.
C6_SendErrorLeavesTables ==
    (cpc = "idle" /\ op \in {"subscribe", "publish"} /\ result = "WebSocketError")
        => max_session_id \notin DOMAIN subscription_requests

\* C7: the lifecycle state changes only along Connected -> ShuttingDown,
\* Connected -> Disconnected, ShuttingDown -> Disconnected (after connect
\* created it as Connected), and Disconnected is written only by a step of
\* the dispatch thread.
C7_LifecycleForward ==
    [][ connection_state' # connection_state =>
          /\ <<connection_state, connection_state'>> \in
                { <<NoState, Connected>>, <<Connected, ShuttingDown>>,
                  <<Connected, Disconnected>>, <<ShuttingDown, Disconnected>> }
          /\ connection_state' = Disconnected => DispatchStep /\ ~CallerStep ]_vars

\* C7 witness: the lifecycle went Connected -> ShuttingDown -> Disconnected.
C7_Witness ==
    /\ connection_state = Disconnected
    /\ GoodbyesWritten(wire, "SystemShutdown") = 1
    /\ op = "shutdown"
    /\ cpc = "idle"

\* C8: once the dispatch thread has stopped, the lifecycle state is
\* Disconnected.
C8_StoppedIsDisconnected ==
    dpc \in {"done", "panicked"} => connection_state = Disconnected

\* C9: a text or binary frame that does not decode is dropped: the loop
\* goes on to the next frame and the lifecycle state and both tables are
\* as they were.
C9_UndecodableDropped ==
    [][ (dpc = "got" /\ message \in UndecodableFrames /\ DispatchStep) =>
          /\ dpc' = "recv"
          /\ UNCHANGED <<connection_state, subscription_requests, subscriptions>> ]_vars

\* C9 witness: with a subscription pending and one active, an undecodable
\* frame was dropped and the loop is ready for the next frame.
C9_Witness ==
    /\ dpc = "recv"
    /\ warned = "undecodable frame"
    /\ DOMAIN subscription_requests # {}
    /\ DOMAIN subscriptions # {}
    /\ connection_state = Connected

\* C10: an event whose subscription id is no key of subscriptions calls no
\* callback, changes neither table nor the lifecycle state, and the loop
\* goes on.
C10_UnknownEventIgnored ==
    [][ (EventHandled /\ message.body.subscription_id \notin DOMAIN subscriptions) =>
          /\ calls' = calls
          /\ UNCHANGED <<connection_state, subscription_requests, subscriptions>>
          /\ dpc' = "recv" ]_vars

\* C10 witness: with another subscription active, an event for an unknown
\* subscription id was ignored.
C10_Witness ==
    /\ dpc = "recv"
    /\ warned = "unknown subscription"
    /\ DOMAIN subscriptions # {}
    /\ calls = << >>

\* C11: every frame is written by the thread that holds the sender's lock
\* (connect's Hello takes and drops the lock within its one step, before
\* the dispatch thread exists), and the two threads are never both at a
\* write.
CallerWriting == cpc = "write" \/ cpc = "welcome"
DispatchWriting == dpc \in {"close_write", "pong_write", "goodbye_write"}

C11_WritesUnderSenderLock ==
    [][ /\ ~(CallerWriting /\ DispatchWriting)
        /\ ~(CallerWriting' /\ DispatchWriting')
        /\ CallerWriting => sender_lock = "caller"
        /\ DispatchWriting => sender_lock = "dispatch"
        /\ wire' # wire =>
             IF DispatchStep
             THEN DispatchWriting
             ELSE CallerWriting \/ (cpc = "hello" /\ sender_lock = "free" /\ dpc = "none") ]_vars

\* C11 witness: the caller is writing a frame while the dispatch thread has
\* a ping, a close frame or a read error to answer and waits for the
\* sender.
C11_Witness ==
    /\ cpc = "write"
    /\ sender_lock = "caller"
    /\ dpc = "got"
    /\ message.opcode \in {"Ping", "Close", "Err"}
    /\ BagCardinality(wire) >= 2

\* Frames of one kind handed to the transport, whatever their outcome.
FramesOfKind(w, kind) ==
    BagCardinality([f \in {g \in BagToSet(w) : g.kind = kind} |-> w[f]])

\* connect is running: the caller has not yet got its result.
Connecting == ~ConnectReturned

LoopEnded == dpc = "done" /\ connection_state = Disconnected

C13_LoopEventuallyExits ==
    /\ (GoodbyeInHand /\ GoodbyesWritten(wire, "SystemShutdown") >= 1) ~> LoopEnded
    /\ (dpc = "got" /\ message.opcode \in {"Close", "Err"}) ~> LoopEnded

\* C13 witness: shutdown() found the lifecycle Connected and returned, and
\* the dispatch thread has read the Goodbye the peer answered with.
C13_Witness ==
    /\ GoodbyeInHand
    /\ GoodbyesWritten(wire, "SystemShutdown") = 1
    /\ connection_state = ShuttingDown
    /\ op = "shutdown"
    /\ cpc = "idle"
    /\ state_lock = "free"

\* The dispatch thread takes a step with a Subscribed message in hand.
SubscribedInHand ==
    /\ dpc = "got"
    /\ message.opcode \in {"Text", "Binary"}
    /\ message.body.type = "Subscribed"

\* C14: handling Subscribed(request id, subscription id): when the request
\* id is a key of pending requests, its Subscription is taken out of that
\* table and put into subscriptions under the subscription id, the other
\* entries of both tables staying as they were; when it is not, neither
\* table changes and the loop goes on.  After one subscribe and
\* Subscribed(1, 42), subscriptions maps 42 to that subscriber and pending
\* requests is empty.
C14_SubscribedMovesSubscriber ==
    [][ /\ (SubscribedInHand /\ DispatchStep) =>
             LET rid == message.body.request_id
             IN IF rid \in DOMAIN subscription_requests
                THEN /\ DOMAIN subscription_requests' = DOMAIN subscription_requests \ {rid}
                     /\ \A k \in DOMAIN subscription_requests' :
                            subscription_requests'[k] = subscription_requests[k]
                     /\ subscription' = <<subscription_requests[rid]>>
                     /\ subscriptions' = subscriptions
                     /\ dpc' = "subscribed_some"
                ELSE /\ UNCHANGED <<subscription_requests, subscriptions>>
                     /\ dpc' = "recv"
        /\ (dpc = "subscribed_some" /\ DispatchStep) =>
             /\ UNCHANGED <<subscription_requests, subscriptions, subscription>>
             /\ dpc' = "subscribed_insert"
        /\ (dpc = "subscribed_insert" /\ DispatchStep) =>
             LET sid == message.body.subscription_id
             IN /\ DOMAIN subscriptions' = DOMAIN subscriptions \cup {sid}
                /\ subscriptions'[sid] = subscription[1]
                /\ \A k \in DOMAIN subscriptions \ {sid} : subscriptions'[k] = subscriptions[k]
                /\ message.body.request_id \notin DOMAIN subscription_requests'
                /\ subscription_requests' = subscription_requests
                /\ dpc' = "recv"
        /\ (ncalls' = 1 /\ op' = "subscribe" /\ dpc' = "recv"
              /\ \E a \in acked' : a.request_id = 1 /\ a.subscription_id = 42) =>
             /\ DOMAIN subscriptions' = {42}
             /\ subscriptions'[42] = Subscription(CallbackOfCall(1))
             /\ DOMAIN subscription_requests' = {} ]_vars

\* C14 witness: after one subscribe, Subscribed(1, 42) has been handled:
\* the subscriber is in subscriptions under 42 and no request is pending.
C14_Witness ==
    /\ ncalls = 1
    /\ op = "subscribe"
    /\ dpc = "recv"
    /\ \E a \in acked : a.request_id = 1 /\ a.subscription_id = 42
    /\ DOMAIN subscriptions = {42}
    /\ DOMAIN subscription_requests = {}

\* The places that hold the Subscription with this callback: the keys of
\* pending requests, the keys of subscriptions, and the local of the
\* Subscribed arm.
HeldPending(cb) ==
    {k \in DOMAIN subscription_requests : subscription_requests[k].callback = cb}
HeldActive(cb) ==
    {k \in DOMAIN subscriptions : subscriptions[k].callback = cb}
HeldByHandler(cb) ==
    {i \in DOMAIN subscription : subscription[i].callback = cb}

\* C15: the Subscription of every subscribe call is held at most once: in
\* pending requests or in subscriptions, never in both, and under one key
\* only (nor is it in a table while the Subscribed arm is moving it).
C15_SubscriberInOneTable ==
    \A n \in 1..ncalls :
        LET cb == CallbackOfCall(n)
        IN Cardinality(HeldPending(cb)) + Cardinality(HeldActive(cb))
               + Cardinality(HeldByHandler(cb)) <= 1

\* C15 witness: while the caller is inside its second subscribe, whose
\* Subscription is pending, the Subscribed arm has moved the first one into
\* subscriptions.
C15_Witness ==
    /\ op = "subscribe"
    /\ cpc \in {"send", "write"}
    /\ ncalls = 2
    /\ HeldPending(CallbackOfCall(2)) # {}
    /\ dpc = "recv"
    /\ HeldActive(CallbackOfCall(1)) # {}

\* The guards a thread holds.
GuardsHeld(thread) ==
    {g \in {"sender", "state", "requests", "subscriptions"} :
        thread = (CASE g = "sender" -> sender_lock
                    [] g = "state" -> state_lock
                    [] g = "requests" -> requests_lock
                    [] g = "subscriptions" -> subscriptions_lock)}

\* C16: no thread holds two of the four guards at the same time.
C16_OneGuardAtATime ==
    \A thread \in {"caller", "dispatch"} : Cardinality(GuardsHeld(thread)) <= 1

\* The request of the Subscribed message in hand was acknowledged before.
AckedBefore == \E a \in acked : a.request_id = message.body.request_id

\* C17: a Subscribed message for a request whose Subscribe frame went out,
\* and which was not acknowledged before, finds the request in pending
\* requests: the arm goes on to the insert and logs no unknown request.
C17_AckFindsRequest ==
    [][ (/\ SubscribedInHand
         /\ DispatchStep
         /\ SubscribeSent(wire, message.body.request_id)
         /\ ~AckedBefore) =>
          /\ message.body.request_id \in DOMAIN subscription_requests
          /\ dpc' = "subscribed_some"
          /\ warned' # "unknown request" ]_vars

\* C17 witness: the acknowledgment of a Subscribe frame that went out has
\* been handled while the caller was inside a later call, and nothing was
\* logged about it.
C17_Witness ==
    /\ dpc = "recv"
    /\ warned = "none"
    /\ nframes = 1
    /\ \E a \in acked : a.sent /\ a.request_id = 1
    /\ cpc \in {"send", "write"}

\* A thread is inside an operation: the caller inside a call, the dispatch
\* thread with a frame in hand or on its way out of the loop.
CallerInCall == cpc \in {"send", "write"}
DispatchInStep == dpc \notin {"none", "recv", "done", "panicked"}

\* A thread inside an operation that can take no step: it waits for a
\* guard.
CallerBlocked == CallerInCall /\ ~ENABLED CallerRun
DispatchBlocked == DispatchInStep /\ ~ENABLED DispatchRun

\* C18: no deadlock: a thread that waits for a guard waits for a thread
\* that can take a step, so the two threads never wait for each other, nor
\* a thread for a guard nobody will drop.
C18_NoDeadlock ==
    /\ CallerBlocked => ENABLED DispatchRun
    /\ DispatchBlocked => ENABLED CallerRun
    /\ ~(CallerBlocked /\ DispatchBlocked)

\* C18 witness: shutdown() holds the lifecycle guard and waits for the
\* sender, which the dispatch thread holds for a pong or a close frame.
C18_Witness ==
    /\ CallerBlocked
    /\ op = "shutdown"
    /\ state_lock = "caller"
    /\ sender_lock = "dispatch"
    /\ dpc \in {"pong_write", "close_write"}

\* Goodbye frames that went out, of either reason.
GoodbyesSent(w) ==
    CopiesIn(OutFrame("Goodbye", "SystemShutdown", 0, "ok"), w)
    + CopiesIn(OutFrame("Goodbye", "GoodbyeAndOut", 0, "ok"), w)

\* C19: over the session the client sends at most one Goodbye frame:
\* Goodbye(SystemShutdown) from shutdown or Goodbye(GoodbyeAndOut) from the
\* handler, never both.
C19_OneGoodbye == GoodbyesSent(wire) <= 1

\* C20: with a router that acknowledges only the Subscribe frames it was
\* sent: an entry of subscriptions, once inserted, stays under its key with
\* its own callback: no step removes or replaces it.
C20_ActiveSubscriptionKept ==
    [][ (\A a \in acked' : a.sent) =>
          \A k \in DOMAIN subscriptions :
              /\ k \in DOMAIN subscriptions'
              /\ subscriptions'[k] = subscriptions[k] ]_vars

====
